---- MODULE Spec2Model ----
(***************************************************************************)
(* Model of the receipt bot of src/bot.py: the two ConversationHandlers    *)
(* registered in main(), the handlers of ReceiptBot that they dispatch to, *)
(* the per-user session dictionary (context.user_data) and the rows that   *)
(* GoogleSheetManager.add_transaction appends to the sheet; and main()     *)
(* from the start of the process to polling, with the plain commands.      *)
(*                                                                         *)
(* Text is modelled as a sequence of one-character strings, so that the    *)
(* conversions of the code (strip, replace, lower, float, strptime) are    *)
(* computed character by character.  Decimal numbers are pairs (m, e)      *)
(* standing for m * 10^-e, normalised so that e is as small as possible.   *)
(***************************************************************************)
EXTENDS Integers, Sequences, FiniteSets, TLC

VARIABLES
    environ,        \* os.environ: what each variable that main() reads holds
    running,        \* where main() is: "starting", "polling" or "stopped"
    openai_client,  \* AIVisionProcessor.openai_client is set (TRUE) or None
    sheet,          \* rows of the worksheet, in order
    photo_conv,     \* photo_handler's conversation state, per chat
    manual_conv,    \* manual_handler's conversation state, per chat
    user_data,      \* context.user_data of the user (a Python dict)
    update,         \* the update most recently dispatched to a handler
    replies,        \* the messages sent while handling that update
    sheet_call,     \* outcome of sheet.append_row in that update
    hist,           \* the flow in progress: the updates since all was Idle, as
                    \* long as each was a message or a button press that moved
                    \* its conversation to another state; Dirty otherwise
    n_updates       \* number of updates handled so far

vars == <<environ, running, openai_client, sheet, photo_conv, manual_conv, user_data, update,
          replies, sheet_call, hist, n_updates>>

-----------------------------------------------------------------------------
(* Bounds of the model *)

\* updates handled in one behaviour
MaxUpdates == 8

-----------------------------------------------------------------------------
(* Python values *)

NoneV == [t |-> "none"]
Str(s) == [t |-> "str", s |-> s]
Num(m, e) == [t |-> "num", m |-> m, e |-> e]
Bool(b) == [t |-> "bool", b |-> b]
List(l) == [t |-> "list", l |-> l]
Dict(d) == [t |-> "dict", d |-> d]

EmptyDict == [k \in {} |-> NoneV]

\* dict.get(k, default)
GetOr(d, k, default) == IF k \in DOMAIN d THEN d[k] ELSE default

\* dict.get(k)
Get(d, k) == GetOr(d, k, NoneV)

\* d[k] = v
Put(d, k, v) == [x \in DOMAIN d \cup {k} |-> IF x = k THEN v ELSE d[x]]

\* Python truth value of an object
Truthy(v) ==
    CASE v.t = "none" -> FALSE
      [] v.t = "str" -> v.s # <<>>
      [] v.t = "num" -> v.m # 0
      [] v.t = "bool" -> v.b
      [] v.t = "list" -> v.l # <<>>
      [] v.t = "dict" -> DOMAIN v.d # {}

-----------------------------------------------------------------------------
(* Text primitives *)

Digits == <<"0", "1", "2", "3", "4", "5", "6", "7", "8", "9">>

IsDigit(c) == \E i \in 1..10 : Digits[i] = c

DigitVal(c) == (CHOOSE i \in 1..10 : Digits[i] = c) - 1

IsSpace(c) == c = " "

UpperCase == <<"A", "B", "C", "D", "E", "F", "G", "H", "I", "J", "K", "L", "M",
               "N", "O", "P", "Q", "R", "S", "T", "U", "V", "W", "X", "Y", "Z">>

LowerCase == <<"a", "b", "c", "d", "e", "f", "g", "h", "i", "j", "k", "l", "m",
               "n", "o", "p", "q", "r", "s", "t", "u", "v", "w", "x", "y", "z">>

LowerChar(c) ==
    IF \E i \in 1..26 : UpperCase[i] = c
    THEN LowerCase[CHOOSE i \in 1..26 : UpperCase[i] = c]
    ELSE c

\* str.lower()
Lower(s) == [i \in 1..Len(s) |-> LowerChar(s[i])]

RECURSIVE LStrip(_)
LStrip(s) == IF s # <<>> /\ IsSpace(Head(s)) THEN LStrip(Tail(s)) ELSE s

RECURSIVE RStrip(_)
RStrip(s) ==
    IF s # <<>> /\ IsSpace(s[Len(s)]) THEN RStrip(SubSeq(s, 1, Len(s) - 1)) ELSE s

\* str.strip()
Strip(s) == RStrip(LStrip(s))

\* str.replace(c, '') for a one-character c
Remove(s, c) == SelectSeq(s, LAMBDA x : x # c)

AllDigits(s) == \A i \in 1..Len(s) : IsDigit(s[i])

RECURSIVE DigitsVal(_)
DigitsVal(s) ==
    IF s = <<>> THEN 0
    ELSE 10 * DigitsVal(SubSeq(s, 1, Len(s) - 1)) + DigitVal(s[Len(s)])

\* index of the first occurrence of c in s, 0 when there is none
IndexOf(s, c) ==
    IF \E i \in 1..Len(s) : s[i] = c
    THEN CHOOSE i \in 1..Len(s) : s[i] = c /\ \A j \in 1..(i - 1) : s[j] # c
    ELSE 0

RECURSIVE Normalise(_, _)
Normalise(m, e) ==
    IF e > 0 /\ m % 10 = 0 THEN Normalise(m \div 10, e - 1) ELSE [m |-> m, e |-> e]

\* float(s) for the decimal literals [sign] digits [. digits] | [sign] . digits,
\* with surrounding whitespace ignored; ok = FALSE stands for ValueError
PyFloat(s) ==
    LET t == Strip(s)
        neg == t # <<>> /\ Head(t) = "-"
        signed == t # <<>> /\ Head(t) \in {"-", "+"}
        body == IF signed THEN Tail(t) ELSE t
        dot == IndexOf(body, ".")
        ip == IF dot = 0 THEN body ELSE SubSeq(body, 1, dot - 1)
        fp == IF dot = 0 THEN <<>> ELSE SubSeq(body, dot + 1, Len(body))
        ok == /\ AllDigits(ip)
              /\ AllDigits(fp)
              /\ Len(ip) + Len(fp) > 0
        mag == DigitsVal(ip \o fp)
        n == Normalise(IF neg THEN 0 - mag ELSE mag, Len(fp))
    IN  IF ok THEN [ok |-> TRUE, m |-> n.m, e |-> n.e]
        ELSE [ok |-> FALSE, m |-> 0, e |-> 0]

IsLeap(y) == (y % 4 = 0 /\ y % 100 # 0) \/ y % 400 = 0

DaysInMonth(y, m) ==
    IF m = 2 THEN (IF IsLeap(y) THEN 29 ELSE 28)
    ELSE IF m \in {4, 6, 9, 11} THEN 30 ELSE 31

\* split s at every occurrence of c
RECURSIVE Split(_, _)
Split(s, c) ==
    LET i == IndexOf(s, c)
    IN  IF i = 0 THEN <<s>>
        ELSE <<SubSeq(s, 1, i - 1)>> \o Split(SubSeq(s, i + 1, Len(s)), c)

\* datetime.strptime(s, '%Y-%m-%d') succeeds (FALSE stands for ValueError):
\* %Y is four digits, %m is 1[0-2]|0[1-9]|[1-9], %d is
\* 3[01]|[12]\d|0[1-9]|[1-9]| [1-9], and the day must exist in the month
StrptimeOk(s) ==
    LET p == Split(s, "-")
        d == IF Len(p) = 3 /\ p[3] # <<>> /\ p[3][1] = " " THEN Tail(p[3]) ELSE <<>>
        dd == IF Len(p) = 3 /\ d = <<>> THEN p[3] ELSE d
    IN  /\ Len(p) = 3
        /\ Len(p[1]) = 4 /\ AllDigits(p[1])
        /\ Len(p[2]) \in {1, 2} /\ AllDigits(p[2])
        /\ DigitsVal(p[2]) \in 1..12
        /\ (d # <<>> => Len(d) = 1)
        /\ Len(dd) \in {1, 2} /\ AllDigits(dd)
        /\ DigitsVal(dd) \in 1..31
        /\ DigitsVal(p[1]) >= 1
        /\ DigitsVal(dd) <= DaysInMonth(DigitsVal(p[1]), DigitsVal(p[2]))

-----------------------------------------------------------------------------
(* Literals of the code *)

Yes == <<"Y", "e", "s">>
No == <<"N", "o">>
TodayToken == <<"t", "o", "d", "a", "y">>
SkipToken == <<"s", "k", "i", "p">>
CancelData == <<"c", "a", "n", "c", "e", "l">>
SaveData == <<"s", "a", "v", "e">>
NotConfigured ==
    <<"O", "p", "e", "n", "A", "I", " ", "n", "o", "t", " ",
      "c", "o", "n", "f", "i", "g", "u", "r", "e", "d">>
NoJson ==
    <<"N", "o", " ", "J", "S", "O", "N", " ", "i", "n", " ",
      "r", "e", "s", "p", "o", "n", "s", "e">>
JsonParseError ==
    <<"J", "S", "O", "N", " ", "p", "a", "r", "s", "e", " ", "e", "r", "r", "o", "r">>

\* the callback_data of the category keyboard that handle_date sends
CategoryButtons ==
    { <<"F", "o", "o", "d">>,
      <<"T", "r", "a", "n", "s", "p", "o", "r", "t">>,
      <<"S", "h", "o", "p", "p", "i", "n", "g">>,
      <<"E", "n", "t", "e", "r", "t", "a", "i", "n", "m", "e", "n", "t">>,
      <<"U", "t", "i", "l", "i", "t", "i", "e", "s">>,
      <<"M", "e", "d", "i", "c", "a", "l">>,
      <<"O", "t", "h", "e", "r">> }

\* the callback_data of the confirmation keyboard that handle_photo sends
ConfirmButtons == {SaveData, CancelData}

Headers ==
    << Str(<<"T", "i", "m", "e", "s", "t", "a", "m", "p">>),
       Str(<<"U", "s", "e", "r", " ", "I", "D">>),
       Str(<<"N", "a", "m", "e">>),
       Str(<<"A", "m", "o", "u", "n", "t">>),
       Str(<<"D", "a", "t", "e">>),
       Str(<<"C", "a", "t", "e", "g", "o", "r", "y">>),
       Str(<<"D", "e", "s", "c", "r", "i", "p", "t", "i", "o", "n">>),
       Str(<<"S", "t", "o", "r", "e">>),
       Str(<<"I", "t", "e", "m", "s", " ", "S", "u", "m", "m", "a", "r", "y">>),
       Str(<<"A", "I", " ", "A", "n", "a", "l", "y", "s", "i", "s">>),
       Str(<<"I", "m", "a", "g", "e", " ", "A", "v", "a", "i", "l", "a", "b", "l", "e">>) >>

\* Conversation states; END is ConversationHandler.END, under which the
\* conversation's key is removed from the handler's table (Idle)
CONFIRM_DETAILS == 0
NAME == 1
AMOUNT == 2
DATE == 3
CATEGORY == 4
DESCRIPTION == 5
END == -1

\* The clock of the process: datetime.now() as a date and as a timestamp
Today == <<"2", "0", "2", "5", "-", "0", "6", "-", "1", "5">>
NowIso == Today \o <<"T", "1", "2", ":", "0", "0", ":", "0", "0">>

\* update.effective_user.id
TheUser == Num(1, 0)

-----------------------------------------------------------------------------
(* AIVisionProcessor *)

\* analyze_receipt_image that hands on the raw answer when json.loads fails
analyze_receipt_image_passing_bad_json(client, backend) ==
    IF ~client THEN Dict([error |-> Str(NotConfigured)])
    ELSE CASE backend.k = "raise" -> Dict([error |-> Str(backend.msg)])
           [] backend.k = "nojson" ->
                Dict([error |-> Str(NoJson), raw_response |-> Str(backend.msg)])
           [] backend.k = "badjson" -> Dict([raw_response |-> Str(backend.msg)])
           [] backend.k = "object" -> Dict(backend.obj)

\* analyze_receipt_image: the result for each outcome of the backend call.
\* backend.k is "raise" (the API call raises), "nojson" (the answer holds no
\* {...}), "badjson" (json.loads fails) or "object" (backend.obj is the parsed
\* JSON object)
analyze_receipt_image(client, backend) ==
    IF ~client THEN Dict([error |-> Str(NotConfigured)])
    ELSE CASE backend.k = "raise" -> Dict([error |-> Str(backend.msg)])
           [] backend.k = "nojson" ->
                Dict([error |-> Str(NoJson), raw_response |-> Str(backend.msg)])
           [] backend.k = "badjson" ->
                Dict([error |-> Str(JsonParseError), raw_response |-> Str(backend.msg)])
           [] backend.k = "object" -> Dict(backend.obj)

\* format_receipt_for_display raises: the :.2f format of a truthy total or
\* tax that is not a number, or an items value that is no list of
\* {name, price, quantity} objects with numeric price and quantity
format_receipt_raises(rd) ==
    IF "error" \in DOMAIN rd THEN FALSE
    ELSE \/ Truthy(Get(rd, "total_amount")) /\ Get(rd, "total_amount").t # "num"
         \/ Truthy(Get(rd, "tax_amount")) /\ Get(rd, "tax_amount").t # "num"
         \/ LET items == GetOr(rd, "items", List(<<>>))
            IN  /\ Truthy(items)
                /\ \/ items.t # "list"
                   \/ \E i \in 1..Len(items.l) :
                        \/ items.l[i].t # "dict"
                        \/ GetOr(items.l[i].d, "price", Num(0, 0)).t # "num"
                        \/ GetOr(items.l[i].d, "quantity", Num(1, 0)).t # "num"

-----------------------------------------------------------------------------
(* GoogleSheetManager *)

\* decimal digits of a natural number
RECURSIVE IntToText(_)
IntToText(n) ==
    IF n < 10 THEN <<Digits[n + 1]>>
    ELSE IntToText(n \div 10) \o <<Digits[(n % 10) + 1]>>

\* ", ".join(names)
RECURSIVE Join(_)
Join(names) ==
    IF names = <<>> THEN <<>>
    ELSE IF Len(names) = 1 THEN names[1]
    ELSE names[1] \o <<",", " ">> \o Join(Tail(names))

\* add_transaction raises before append_row: an item that is no object
items_summary_raises(data) ==
    LET items == Get(data, "items")
    IN  /\ Truthy(items)
        /\ items.t = "list"
        /\ \E i \in 1..Len(items.l) :
             /\ i <= 3
             /\ \/ items.l[i].t # "dict"
                \/ /\ Truthy(GetOr(items.l[i].d, "name", Str(<<>>)))
                   /\ GetOr(items.l[i].d, "name", Str(<<>>)).t # "str"

\* the Items Summary column: the names of the first three items, and a count
\* of the others
items_summary(data) ==
    LET items == Get(data, "items")
    IN  IF Truthy(items) /\ items.t = "list"
        THEN LET first == SubSeq(items.l, 1, IF Len(items.l) < 3 THEN Len(items.l) ELSE 3)
                 names == [i \in 1..Len(first) |-> GetOr(first[i].d, "name", Str(<<>>))]
                 kept == SelectSeq(names, Truthy)
                 joined == Join([i \in 1..Len(kept) |-> kept[i].s])
             IN  IF Len(items.l) > 3
                 THEN joined \o <<" ", "a", "n", "d", " ">> \o IntToText(Len(items.l) - 3)
                             \o <<" ", "m", "o", "r", "e">>
                 ELSE joined
        ELSE <<>>

\* the row that add_transaction appends for the dict data
transaction_row(data) ==
    << Str(NowIso),
       GetOr(data, "user_id", Str(<<>>)),
       GetOr(data, "name", Str(<<>>)),
       GetOr(data, "amount", Num(0, 0)),
       GetOr(data, "date", Str(<<>>)),
       GetOr(data, "category", Str(<<>>)),
       GetOr(data, "description", Str(<<>>)),
       GetOr(data, "store", Str(<<>>)),
       Str(items_summary(data)),
       GetOr(data, "ai_analysis", Str(No)),
       Str(IF Truthy(Get(data, "has_image")) THEN Yes ELSE No) >>

\* columns of a row
RowName(r) == r[3]
RowAmount(r) == r[4]
RowDate(r) == r[5]
RowCategory(r) == r[6]
RowDescription(r) == r[7]
RowStore(r) == r[8]
RowItems(r) == r[9]
RowAI(r) == r[10]
RowImage(r) == r[11]

\* the text of a cell
CellText(v) == IF v.t = "str" THEN v.s ELSE <<>>

\* The Name cells of sheet.get_all_records(): the first row gives the keys,
\* and a record without the key Name reads as ''.  read_ok: the read returns
\* (FALSE: it raises, and the caller goes on with an empty list)
record_names(rows, read_ok) ==
    IF ~read_ok \/ Len(rows) < 2 THEN <<>>
    ELSE LET cols == {i \in 1..Len(rows[1]) : rows[1][i] = Str(<<"N", "a", "m", "e">>)}
         IN  [i \in 1..(Len(rows) - 1) |->
                 IF cols = {} THEN <<>> ELSE CellText(rows[i + 1][CHOOSE c \in cols : TRUE])]

\* the number of records that get_transactions_by_name returns
get_transactions_by_name(name, rows, read_ok) ==
    Cardinality({i \in 1..Len(record_names(rows, read_ok)) :
                    Lower(record_names(rows, read_ok)[i]) = Lower(name)})

get_all_names(rows, read_ok) ==
    {Strip(record_names(rows, read_ok)[i]) : i \in 1..Len(record_names(rows, read_ok))}
        \ {<<>>}

\* GoogleSheetManager.__init__ under the environment env, with the sheet
\* holding rows.  header_ok: get_all_values and append_row of the headers
\* return (FALSE: one of them raises, which __init__ logs and passes over).
\* The result tells whether __init__ raised, and the rows after it
GoogleSheetManager(env, rows, header_ok) ==
    IF env.GOOGLE_CREDS_JSON # "valid" \/ env.SHEET_URL # "valid"
    THEN [raised |-> TRUE, rows |-> rows]
    ELSE [raised |-> FALSE,
          rows |-> IF rows = <<>> /\ header_ok THEN <<Headers>> ELSE rows]

-----------------------------------------------------------------------------
(* main(): from the start of the process to run_polling *)

\* the values of an environment variable: not set, set to something the
\* service it is for refuses, set and accepted
Settings == {"missing", "invalid", "valid"}

ValidEnviron ==
    [TELEGRAM_TOKEN |-> "valid", GOOGLE_CREDS_JSON |-> "valid", SHEET_URL |-> "valid"]

\* main() that goes on to build the Application when GoogleSheetManager raised
main_serving_without_sheet(env, rows, header_ok) ==
    LET sheet_manager == GoogleSheetManager(env, rows, header_ok)
    IN  IF env.TELEGRAM_TOKEN = "missing" THEN [running |-> "stopped", rows |-> rows]
        ELSE IF env.TELEGRAM_TOKEN = "invalid"
        THEN [running |-> "stopped", rows |-> sheet_manager.rows]
        ELSE [running |-> "polling", rows |-> sheet_manager.rows]

\* main() up to the first update: "stopped" when it returns or when
\* Application.initialize raises on a token that Telegram refuses, "polling"
\* otherwise; and the rows of the sheet then
main(env, rows, header_ok) ==
    LET sheet_manager == GoogleSheetManager(env, rows, header_ok)
    IN  IF env.TELEGRAM_TOKEN = "missing" THEN [running |-> "stopped", rows |-> rows]
        ELSE IF sheet_manager.raised THEN [running |-> "stopped", rows |-> rows]
        ELSE IF env.TELEGRAM_TOKEN = "invalid"
        THEN [running |-> "stopped", rows |-> sheet_manager.rows]
        ELSE [running |-> "polling", rows |-> sheet_manager.rows]

-----------------------------------------------------------------------------
(* ReceiptBot: the handlers.  Each is the whole callback, as a function of   *)
(* the session and the update's content; its result is the session after it, *)
(* the state it returns, the messages it sent, and whether it raised.        *)

Returned(ud, state, msgs) == [ud |-> ud, state |-> state, msgs |-> msgs, raised |-> FALSE]

\* an exception leaves the callback: what was written to user_data stays
Raised(ud, msgs) == [ud |-> ud, state |-> END, msgs |-> msgs, raised |-> TRUE]

\* the bytes of a downloaded photo
Bytes == [t |-> "bytes"]

\* context.user_data.get('ai_analysis', {})
ReceiptData(ud) == GetOr(ud, "ai_analysis", Dict(EmptyDict)).d

NoError(rd) == "error" \notin DOMAIN rd

\* env.download: get_file and download_as_bytearray succeed; env.backend: the
\* outcome of the vision backend's call
handle_photo(ud, client, env) ==
    IF ~env.download
    THEN Returned(ud, END, <<"Error analyzing receipt photo.">>)
    ELSE LET ud1 == Put(Put(ud, "receipt_photo", Bytes), "has_image", Bool(TRUE))
             receipt_data == analyze_receipt_image(client, env.backend)
             ud2 == Put(ud1, "ai_analysis", receipt_data)
         IN  IF format_receipt_raises(receipt_data.d)
             THEN Returned(ud2, END,
                           <<"Analyzing receipt with AI...",
                             "Error analyzing receipt photo.">>)
             ELSE Returned(ud2, CONFIRM_DETAILS,
                           <<"Analyzing receipt with AI...",
                             IF NoError(receipt_data.d)
                             THEN "Receipt Analysis Results: Would you like to save this to Google Sheets?"
                             ELSE "Error analyzing receipt: Would you like to save this to Google Sheets?">>)

handle_confirmation(ud, data) ==
    IF data = CancelData
    THEN Returned(EmptyDict, END, <<"Receipt analysis cancelled.">>)
    ELSE Returned(ud, NAME, <<"I'll save this receipt! Please enter the person's name for this receipt:">>)

add_receipt(ud) ==
    Returned(EmptyDict, NAME, <<"Please enter the person's name for this transaction:">>)

handle_name(ud, text) ==
    LET name == Strip(text)
        ud1 == Put(ud, "name", Str(name))
        receipt_data == ReceiptData(ud)
        total_amount == Get(receipt_data, "total_amount")
    IN  IF name = <<>>
        THEN Returned(ud, NAME, <<"Please enter a valid name:">>)
        ELSE IF Truthy(total_amount) /\ NoError(receipt_data)
        THEN IF total_amount.t # "num"
             THEN Raised(ud1, <<>>)
             ELSE Returned(ud1, AMOUNT, <<"AI detected total: Press Enter to accept, or enter a different amount:">>)
        ELSE Returned(ud1, AMOUNT, <<"Enter the amount (e.g., 25.50):">>)

\* handle_amount without the test for an error in the extraction result
handle_amount_trusting_errors(ud, text) ==
    LET user_input == Strip(text)
        receipt_data == ReceiptData(ud)
        detected_amount == Get(receipt_data, "total_amount")
        parsed == PyFloat(Strip(Remove(Remove(user_input, "$"), ",")))
        use_detected == user_input = <<>> /\ Truthy(detected_amount)
        amount == IF use_detected THEN detected_amount ELSE Num(parsed.m, parsed.e)
        detected_date == Get(receipt_data, "date")
    IN  IF ~use_detected /\ ~parsed.ok
        THEN Returned(ud, AMOUNT, <<"Invalid amount. Please enter a number (e.g., 25.50):">>)
        ELSE Returned(Put(ud, "amount", amount), DATE,
                      <<IF Truthy(detected_date) /\ NoError(receipt_data)
                        THEN "AI detected date: Press Enter to accept, or enter a different date (YYYY-MM-DD or 'today'):"
                        ELSE "Enter the date (YYYY-MM-DD or type 'today'):">>)

handle_amount(ud, text) ==
    LET user_input == Strip(text)
        receipt_data == ReceiptData(ud)
        detected_amount == Get(receipt_data, "total_amount")
        parsed == PyFloat(Strip(Remove(Remove(user_input, "$"), ",")))
        use_detected == user_input = <<>> /\ Truthy(detected_amount) /\ NoError(receipt_data)
        amount == IF use_detected THEN detected_amount ELSE Num(parsed.m, parsed.e)
        detected_date == Get(receipt_data, "date")
    IN  IF ~use_detected /\ ~parsed.ok
        THEN Returned(ud, AMOUNT, <<"Invalid amount. Please enter a number (e.g., 25.50):">>)
        ELSE Returned(Put(ud, "amount", amount), DATE,
                      <<IF Truthy(detected_date) /\ NoError(receipt_data)
                        THEN "AI detected date: Press Enter to accept, or enter a different date (YYYY-MM-DD or 'today'):"
                        ELSE "Enter the date (YYYY-MM-DD or type 'today'):">>)

\* handle_date that stores the date before it validates it
handle_date_storing_first(ud, text) ==
    LET user_input == Strip(text)
        receipt_data == ReceiptData(ud)
        detected_date == Get(receipt_data, "date")
        date_text ==
            IF user_input = <<>> /\ Truthy(detected_date) /\ NoError(receipt_data)
            THEN detected_date
            ELSE IF Lower(user_input) = TodayToken THEN Str(Today)
            ELSE Str(user_input)
        ud1 == Put(ud, "date", date_text)
        store == GetOr(receipt_data, "store_name", Str(<<>>))
        ud2 == IF Truthy(store) /\ NoError(receipt_data) THEN Put(ud1, "store", store) ELSE ud1
        items == GetOr(receipt_data, "items", List(<<>>))
        ud3 == IF Truthy(items) /\ NoError(receipt_data) THEN Put(ud2, "items", items) ELSE ud2
    IN  IF Truthy(date_text) /\ date_text.t # "str"
        THEN Raised(ud1, <<>>)
        ELSE IF Truthy(date_text) /\ ~StrptimeOk(date_text.s)
        THEN Returned(ud1, DATE, <<"Invalid date format. Please use YYYY-MM-DD:">>)
        ELSE Returned(ud3, CATEGORY, <<"Select a category:">>)

handle_date(ud, text) ==
    LET user_input == Strip(text)
        receipt_data == ReceiptData(ud)
        detected_date == Get(receipt_data, "date")
        date_text ==
            IF user_input = <<>> /\ Truthy(detected_date) /\ NoError(receipt_data)
            THEN detected_date
            ELSE IF Lower(user_input) = TodayToken THEN Str(Today)
            ELSE Str(user_input)
        ud1 == Put(ud, "date", date_text)
        store == GetOr(receipt_data, "store_name", Str(<<>>))
        ud2 == IF Truthy(store) /\ NoError(receipt_data) THEN Put(ud1, "store", store) ELSE ud1
        items == GetOr(receipt_data, "items", List(<<>>))
        ud3 == IF Truthy(items) /\ NoError(receipt_data) THEN Put(ud2, "items", items) ELSE ud2
    IN  IF Truthy(date_text) /\ date_text.t # "str"
        THEN Raised(ud, <<>>)
        ELSE IF Truthy(date_text) /\ ~StrptimeOk(date_text.s)
        THEN Returned(ud, DATE, <<"Invalid date format. Please use YYYY-MM-DD:">>)
        ELSE Returned(ud3, CATEGORY, <<"Select a category:">>)

\* len(x) raises
NoLen(v) == v.t \notin {"list", "str", "dict", "bytes"}

handle_category(ud, data) ==
    LET ud1 == Put(ud, "category", Str(data))
        items == GetOr(ud1, "items", List(<<>>))
    IN  IF \/ GetOr(ud1, "amount", Num(0, 0)).t # "num"
           \/ Truthy(items) /\ NoLen(items)
        THEN Raised(ud1, <<>>)
        ELSE Returned(ud1, DESCRIPTION, <<"Final Review: Enter description (optional, or type 'skip'):">>)

\* transaction_data with has_image read with the default True
transaction_data_image_by_default(ud) ==
    [user_id |-> TheUser,
     name |-> Get(ud, "name"),
     amount |-> Get(ud, "amount"),
     date |-> Get(ud, "date"),
     category |-> Get(ud, "category"),
     description |-> GetOr(ud, "description", Str(<<>>)),
     store |-> GetOr(ud, "store", Str(<<>>)),
     items |-> GetOr(ud, "items", List(<<>>)),
     ai_analysis |-> Str(IF "ai_analysis" \in DOMAIN ud THEN Yes ELSE No),
     has_image |-> GetOr(ud, "has_image", Bool(TRUE))]

\* the dict that handle_description hands to add_transaction
transaction_data(ud) ==
    [user_id |-> TheUser,
     name |-> Get(ud, "name"),
     amount |-> Get(ud, "amount"),
     date |-> Get(ud, "date"),
     category |-> Get(ud, "category"),
     description |-> GetOr(ud, "description", Str(<<>>)),
     store |-> GetOr(ud, "store", Str(<<>>)),
     items |-> GetOr(ud, "items", List(<<>>)),
     ai_analysis |-> Str(IF "ai_analysis" \in DOMAIN ud THEN Yes ELSE No),
     has_image |-> GetOr(ud, "has_image", Bool(FALSE))]

\* handle_description that clears the session only after a successful save
handle_description_keeping_failed_session(ud, text, rows, append_ok) ==
    LET description == IF Lower(text) # SkipToken THEN Str(text) ELSE Str(<<>>)
        ud1 == Put(ud, "description", description)
        data == transaction_data(ud1)
        saving == "Saving to Google Sheets..."
        failure == "Error saving receipt to Google Sheets."
        done(ud2, msg, rows1, call) ==
            [ud |-> ud2, state |-> END, msgs |-> <<saving, msg>>, raised |-> FALSE,
             rows |-> rows1, call |-> call]
    IN  IF items_summary_raises(data) THEN done(ud1, failure, rows, "none")
        ELSE IF ~append_ok THEN done(ud1, failure, rows, "failed")
        ELSE IF \/ data.amount.t # "num"
                \/ Truthy(data.items) /\ NoLen(data.items)
        THEN done(ud1, failure, Append(rows, transaction_row(data)), "ok")
        ELSE done(EmptyDict, "Receipt saved successfully!",
                  Append(rows, transaction_row(data)), "ok")

\* handle_description that stays in DESCRIPTION when append_row raises, so
\* that the next message tries the append again
handle_description_awaiting_retry(ud, text, rows, append_ok) ==
    LET description == IF Lower(text) # SkipToken THEN Str(text) ELSE Str(<<>>)
        ud1 == Put(ud, "description", description)
        data == transaction_data(ud1)
        saving == "Saving to Google Sheets..."
        failure == "Error saving receipt to Google Sheets."
        done(msg, rows1, call) ==
            [ud |-> EmptyDict, state |-> END, msgs |-> <<saving, msg>>, raised |-> FALSE,
             rows |-> rows1, call |-> call]
    IN  IF items_summary_raises(data) THEN done(failure, rows, "none")
        ELSE IF ~append_ok
        THEN [ud |-> ud1, state |-> DESCRIPTION, msgs |-> <<saving, failure>>,
              raised |-> FALSE, rows |-> rows, call |-> "failed"]
        ELSE IF \/ data.amount.t # "num"
                \/ Truthy(data.items) /\ NoLen(data.items)
        THEN done(failure, Append(rows, transaction_row(data)), "ok")
        ELSE done("Receipt saved successfully!", Append(rows, transaction_row(data)), "ok")

\* append_ok: sheet.append_row returns (FALSE: it raises).  The result has two
\* more fields: the rows of the sheet after the call, and what became of
\* append_row ("none": not called, "ok", "failed")
handle_description(ud, text, rows, append_ok) ==
    LET description == IF Lower(text) # SkipToken THEN Str(text) ELSE Str(<<>>)
        ud1 == Put(ud, "description", description)
        data == transaction_data(ud1)
        saving == "Saving to Google Sheets..."
        failure == "Error saving receipt to Google Sheets."
        done(msg, rows1, call) ==
            [ud |-> EmptyDict, state |-> END, msgs |-> <<saving, msg>>, raised |-> FALSE,
             rows |-> rows1, call |-> call]
    IN  IF items_summary_raises(data) THEN done(failure, rows, "none")
        ELSE IF ~append_ok THEN done(failure, rows, "failed")
        ELSE IF \/ data.amount.t # "num"
                \/ Truthy(data.items) /\ NoLen(data.items)
        THEN done(failure, Append(rows, transaction_row(data)), "ok")
        ELSE done("Receipt saved successfully!", Append(rows, transaction_row(data)), "ok")

cancel(ud) == Returned(EmptyDict, END, <<"Operation cancelled.">>)

\* The callbacks of the plain CommandHandlers; the Application drops what they
\* return
\* start that clears the session, as the entry point of the manual flow does
start_clearing_session(ud) == Returned(EmptyDict, END, <<"Welcome to AI Receipt Scanner Bot!">>)

start(ud) == Returned(ud, END, <<"Welcome to AI Receipt Scanner Bot!">>)

help_command(ud) == Returned(ud, END, <<"AI Receipt Scanner Bot Help">>)

\* args: the words after /search, joined
search_transactions(ud, args, rows, read_ok) ==
    Returned(ud, END,
             <<IF args = <<>> THEN "Please provide a name: Example: /search John Doe"
               ELSE IF get_transactions_by_name(args, rows, read_ok) = 0
               THEN "No transactions found for {name}"
               ELSE "Transactions for {name}:">>)

list_names(ud, rows, read_ok) ==
    Returned(ud, END,
             <<IF get_all_names(rows, read_ok) # {} THEN "People in records:"
               ELSE "No records found yet.">>)

\* main's error_handler: the message it adds to those already sent
error_handler(msgs) == msgs \o <<"An error occurred: {context.error}">>

-----------------------------------------------------------------------------
(* Updates, and their dispatch by the Application and ConversationHandlers *)

NoEnv == [download |-> FALSE, backend |-> [k |-> "none"]]

NoUpdate == [kind |-> "none", chat |-> 0, cmd |-> "", text |-> <<>>, env |-> NoEnv]

PhotoUpdate(c, env) == [kind |-> "photo", chat |-> c, cmd |-> "", text |-> <<>>, env |-> env]

\* a text message that is no command (filters.TEXT & ~filters.COMMAND)
TextUpdate(c, text) == [kind |-> "text", chat |-> c, cmd |-> "", text |-> text, env |-> NoEnv]

CommandUpdate(c, cmd) == [kind |-> "command", chat |-> c, cmd |-> cmd, text |-> <<>>, env |-> NoEnv]

\* a press on an inline button; text is its callback_data
CallbackUpdate(c, data) == [kind |-> "callback", chat |-> c, cmd |-> "", text |-> data, env |-> NoEnv]

\* /search with the words args after it
SearchUpdate(c, args) ==
    [kind |-> "command", chat |-> c, cmd |-> "search", text |-> args, env |-> NoEnv]

IsCommand(u, cmd) == u.kind = "command" /\ u.cmd = cmd

\* the handlers listed under a state, then the fallbacks, in the order of the
\* tables of photo_handler and manual_handler: the callback of the first one
\* whose filter accepts the update, "none" when there is none
state_callback(state, u) ==
    CASE state \in {CONFIRM_DETAILS, CATEGORY} /\ u.kind = "callback" ->
            IF state = CONFIRM_DETAILS THEN "handle_confirmation" ELSE "handle_category"
      [] state = NAME /\ u.kind = "text" -> "handle_name"
      [] state = AMOUNT /\ u.kind = "text" -> "handle_amount"
      [] state = DATE /\ u.kind = "text" -> "handle_date"
      [] state = DESCRIPTION /\ u.kind = "text" -> "handle_description"
      [] OTHER -> IF IsCommand(u, "cancel") THEN "cancel" ELSE "none"

\* ConversationHandler.check_update of photo_handler (allow_reentry=True): the
\* entry point is tried first, in every state
photo_handler(state, u) ==
    IF u.kind = "photo" THEN "handle_photo"
    ELSE IF state = END THEN "none"
    ELSE state_callback(state, u)

\* ConversationHandler.check_update of manual_handler (allow_reentry=True)
manual_handler(state, u) ==
    IF IsCommand(u, "add") THEN "add_receipt"
    ELSE IF state = END THEN "none"
    ELSE state_callback(state, u)

\* Application.process_update over the handlers in the order main adds them:
\* the first handler that accepts the update takes it, the others never see it.
\* The result names the handler ("app" for a plain CommandHandler) and the
\* callback
route(pc, mc, u) ==
    IF IsCommand(u, "start") THEN <<"app", "start">>
    ELSE IF photo_handler(pc[u.chat], u) # "none"
    THEN <<"photo", photo_handler(pc[u.chat], u)>>
    ELSE IF manual_handler(mc[u.chat], u) # "none"
    THEN <<"manual", manual_handler(mc[u.chat], u)>>
    ELSE IF IsCommand(u, "search") THEN <<"app", "search_transactions">>
    ELSE IF IsCommand(u, "list") THEN <<"app", "list_names">>
    ELSE IF IsCommand(u, "help") THEN <<"app", "help_command">>
    ELSE IF IsCommand(u, "cancel") THEN <<"app", "cancel">>
    ELSE <<"none", "none">>

\* ConversationHandler._update_state: END removes the key, another state is
\* stored; a callback that raised stores nothing
update_state(conv, chat, res) ==
    IF res.raised THEN conv ELSE [conv EXCEPT ![chat] = res.state]

AllIdle == \A c \in DOMAIN photo_conv : photo_conv[c] = END /\ manual_conv[c] = END

\* the history no longer is that of one flow
Dirty == <<[kind |-> "dirty", chat |-> 0, cmd |-> "", text |-> <<>>, env |-> NoEnv]>>

\* The update u went to callback r[2] of handler r[1], with result res
Handled(u, r, res, rows, call) ==
    /\ running = "polling"
    /\ n_updates < MaxUpdates
    /\ n_updates' = n_updates + 1
    /\ update' = u
    /\ user_data' = res.ud
    /\ replies' = IF res.raised THEN error_handler(res.msgs) ELSE res.msgs
    /\ photo_conv' = IF r[1] = "photo" THEN update_state(photo_conv, u.chat, res) ELSE photo_conv
    /\ manual_conv' = IF r[1] = "manual" THEN update_state(manual_conv, u.chat, res) ELSE manual_conv
    /\ sheet' = rows
    /\ sheet_call' = call
    /\ hist' = IF AllIdle THEN <<u>>
               ELSE IF /\ hist # Dirty
                       /\ u.kind \in {"text", "callback"}
                       /\ <<photo_conv', manual_conv'>> # <<photo_conv, manual_conv>>
               THEN Append(hist, u)
               ELSE Dirty
    /\ UNCHANGED <<environ, running, openai_client>>

Route(u) == route(photo_conv, manual_conv, u)

-----------------------------------------------------------------------------
(* Actions: one per callback.  C is the set of chats, and the other          *)
(* parameters are the sets the update's content is drawn from.               *)

HandlePhoto(C, E) ==
    \E c \in C, env \in E :
        LET u == PhotoUpdate(c, env)
        IN  /\ Route(u)[2] = "handle_photo"
            /\ Handled(u, Route(u), handle_photo(user_data, openai_client, env), sheet, "none")

HandleConfirmation(C, K) ==
    \E c \in C, data \in K :
        LET u == CallbackUpdate(c, data)
        IN  /\ Route(u)[2] = "handle_confirmation"
            /\ Handled(u, Route(u), handle_confirmation(user_data, data), sheet, "none")

AddReceipt(C) ==
    \E c \in C :
        LET u == CommandUpdate(c, "add")
        IN  /\ Route(u)[2] = "add_receipt"
            /\ Handled(u, Route(u), add_receipt(user_data), sheet, "none")

HandleName(C, T) ==
    \E c \in C, text \in T :
        LET u == TextUpdate(c, text)
        IN  /\ Route(u)[2] = "handle_name"
            /\ Handled(u, Route(u), handle_name(user_data, text), sheet, "none")

HandleAmount(C, T) ==
    \E c \in C, text \in T :
        LET u == TextUpdate(c, text)
        IN  /\ Route(u)[2] = "handle_amount"
            /\ Handled(u, Route(u), handle_amount(user_data, text), sheet, "none")

HandleDate(C, T) ==
    \E c \in C, text \in T :
        LET u == TextUpdate(c, text)
        IN  /\ Route(u)[2] = "handle_date"
            /\ Handled(u, Route(u), handle_date(user_data, text), sheet, "none")

HandleCategory(C, K) ==
    \E c \in C, data \in K :
        LET u == CallbackUpdate(c, data)
        IN  /\ Route(u)[2] = "handle_category"
            /\ Handled(u, Route(u), handle_category(user_data, data), sheet, "none")

HandleDescription(C, T) ==
    \E c \in C, text \in T, append_ok \in BOOLEAN :
        LET u == TextUpdate(c, text)
            res == handle_description(user_data, text, sheet, append_ok)
        IN  /\ Route(u)[2] = "handle_description"
            /\ Handled(u, Route(u), res, res.rows, res.call)

Cancel(C) ==
    \E c \in C :
        LET u == CommandUpdate(c, "cancel")
        IN  /\ Route(u)[2] = "cancel"
            /\ Handled(u, Route(u), cancel(user_data), sheet, "none")

Start(C) ==
    \E c \in C :
        LET u == CommandUpdate(c, "start")
        IN  /\ Route(u)[2] = "start"
            /\ Handled(u, Route(u), start(user_data), sheet, "none")

HelpCommand(C) ==
    \E c \in C :
        LET u == CommandUpdate(c, "help")
        IN  /\ Route(u)[2] = "help_command"
            /\ Handled(u, Route(u), help_command(user_data), sheet, "none")

SearchTransactions(C, N) ==
    \E c \in C, args \in N, read_ok \in BOOLEAN :
        LET u == SearchUpdate(c, args)
        IN  /\ Route(u)[2] = "search_transactions"
            /\ Handled(u, Route(u), search_transactions(user_data, args, sheet, read_ok),
                       sheet, "none")

ListNames(C) ==
    \E c \in C, read_ok \in BOOLEAN :
        LET u == CommandUpdate(c, "list")
        IN  /\ Route(u)[2] = "list_names"
            /\ Handled(u, Route(u), list_names(user_data, sheet, read_ok), sheet, "none")

\* main() runs, once, before any update is handled
Main ==
    \E header_ok \in BOOLEAN :
        /\ running = "starting"
        /\ running' = main(environ, sheet, header_ok).running
        /\ sheet' = main(environ, sheet, header_ok).rows
        /\ UNCHANGED <<environ, openai_client, photo_conv, manual_conv, user_data,
                       update, replies, sheet_call, hist, n_updates>>

\* The state when main() starts polling.  S is the set of the sheet's possible
\* contents then: the header row alone for a new sheet, nothing when the
\* initialisation of the headers failed
InitOver(C, S) ==
    /\ environ = ValidEnviron
    /\ running = "polling"
    /\ openai_client \in BOOLEAN
    /\ sheet \in S
    /\ photo_conv = [c \in C |-> END]
    /\ manual_conv = [c \in C |-> END]
    /\ user_data = EmptyDict
    /\ update = NoUpdate
    /\ replies = <<>>
    /\ sheet_call = "none"
    /\ hist = <<>>
    /\ n_updates = 0

-----------------------------------------------------------------------------
(* The inputs of the specification Spec *)

Chats == {1}

Jo == <<"J", "o">>
Fifteen == <<"1", "5">>
MinusFive == <<"-", "5">>
Blank == <<" ">>
TypedDate == <<"2", "0", "2", "5", "-", "0", "1", "-", "1", "0">>

Texts == {Blank, Jo, Fifteen, MinusFive, TypedDate, SkipToken}

Food == <<"F", "o", "o", "d">>

Buttons == {SaveData, CancelData, Food}

Acme == <<"A", "c", "m", "e">>
Milk == <<"M", "i", "l", "k">>
ExtractedDate == <<"2", "0", "2", "5", "-", "0", "3", "-", "0", "1">>

\* the answer of the spec's example: amount 42.50, date 2025-03-01, store Acme
GoodReceipt ==
    [k |-> "object",
     obj |-> [store_name |-> Str(Acme), total_amount |-> Num(425, 1),
              date |-> Str(ExtractedDate),
              items |-> List(<<Dict([name |-> Str(Milk)])>>)]]

\* an answer that reports an error next to its fields
Junk == <<"J", "u", "n", "k">>
Untrusted == <<"2", "0", "2", "4", "-", "1", "2", "-", "3", "1">>
ErrorReceipt ==
    [k |-> "object",
     obj |-> [error |-> Str(<<"b", "l", "u", "r">>),
              store_name |-> Str(Junk), total_amount |-> Num(99, 0),
              date |-> Str(Untrusted),
              items |-> List(<<Dict([name |-> Str(Junk)])>>)]]

BackendRaises == [k |-> "raise", msg |-> <<"t", "i", "m", "e", "o", "u", "t">>]

Envs ==
    {[download |-> TRUE, backend |-> b] : b \in {GoodReceipt, ErrorReceipt, BackendRaises}}
    \cup {[download |-> FALSE, backend |-> BackendRaises]}

Init == InitOver(Chats, {<<Headers>>})

Next ==
    \/ HandlePhoto(Chats, Envs)
    \/ HandleConfirmation(Chats, Buttons)
    \/ AddReceipt(Chats)
    \/ HandleName(Chats, Texts)
    \/ HandleAmount(Chats, Texts)
    \/ HandleDate(Chats, Texts)
    \/ HandleCategory(Chats, Buttons)
    \/ HandleDescription(Chats, Texts)
    \/ Cancel(Chats)

Spec == Init /\ [][Next]_vars

-----------------------------------------------------------------------------
(* The inputs of the specification SpecFaults: the failures of the vision    *)
(* backend, answers that break the prompt's rules, and amounts as users      *)
(* type them                                                                 *)

Dollars == <<"$", "1", ",", "2", "3", "4", ".", "5", "6">>
StrayDollar == <<"1", "$", "5">>
Abc == <<"a", "b", "c">>

FaultTexts == {Jo, Dollars, StrayDollar, Abc, TypedDate}

FaultButtons == {SaveData, Food}

\* an answer without a JSON object, and one whose braces hold no JSON
NoJsonAnswer == [k |-> "nojson", msg |-> <<"S", "o", "r", "r", "y">>]
BadJsonAnswer == [k |-> "badjson", msg |-> <<"{", "x", "}">>]

\* an answer whose total is a string, against rule 3 of the prompt
TextTotalReceipt ==
    [k |-> "object",
     obj |-> [store_name |-> Str(Acme), total_amount |-> Str(<<"1", "2", ".", "5", "0">>)]]

\* an answer with a summary
SummaryReceipt ==
    [k |-> "object",
     obj |-> [store_name |-> Str(Acme), total_amount |-> Num(425, 1),
              date |-> Str(ExtractedDate), summary |-> Str(Milk)]]

FaultEnvs ==
    {[download |-> TRUE, backend |-> b] :
        b \in {BackendRaises, NoJsonAnswer, BadJsonAnswer, TextTotalReceipt, SummaryReceipt}}

NextFaults ==
    \/ HandlePhoto(Chats, FaultEnvs)
    \/ HandleConfirmation(Chats, FaultButtons)
    \/ AddReceipt(Chats)
    \/ HandleName(Chats, FaultTexts)
    \/ HandleAmount(Chats, FaultTexts)
    \/ HandleDate(Chats, FaultTexts)
    \/ HandleCategory(Chats, FaultButtons)
    \/ HandleDescription(Chats, FaultTexts)
    \/ Cancel(Chats)

SpecFaults == Init /\ [][NextFaults]_vars

-----------------------------------------------------------------------------
(* The inputs of the specification SpecChats: the user writes to the bot in  *)
(* two chats (a private chat and a group, say).  The ConversationHandlers    *)
(* keep one state per chat and user; context.user_data is the user's.        *)

TwoChats == {1, 2}

ChatTexts == {Jo, Fifteen, TypedDate}

ChatButtons == {SaveData, Food}

ChatEnvs == {[download |-> TRUE, backend |-> GoodReceipt]}

InitChats == InitOver(TwoChats, {<<Headers>>})

NextChats ==
    \/ HandlePhoto(TwoChats, ChatEnvs)
    \/ HandleConfirmation(TwoChats, ChatButtons)
    \/ AddReceipt(TwoChats)
    \/ HandleName(TwoChats, ChatTexts)
    \/ HandleAmount(TwoChats, ChatTexts)
    \/ HandleDate(TwoChats, ChatTexts)
    \/ HandleCategory(TwoChats, ChatButtons)
    \/ HandleDescription(TwoChats, ChatTexts)
    \/ Cancel(TwoChats)

SpecChats == InitChats /\ [][NextChats]_vars

-----------------------------------------------------------------------------
(* The inputs of the specification SpecMain: the process from its start,     *)
(* under every setting of the environment, with a sheet that is new or has   *)
(* its headers, and the informational commands next to the flows             *)

MainTexts == {Jo, Fifteen, TypedDate}

MainButtons == {SaveData, Food}

MainEnvs == {[download |-> TRUE, backend |-> GoodReceipt]}

SearchArgs == {<<>>, Jo}

InitMain ==
    /\ environ \in [TELEGRAM_TOKEN : Settings, GOOGLE_CREDS_JSON : Settings,
                    SHEET_URL : Settings]
    /\ running = "starting"
    /\ openai_client \in BOOLEAN
    /\ sheet \in {<<>>, <<Headers>>}
    /\ photo_conv = [c \in Chats |-> END]
    /\ manual_conv = [c \in Chats |-> END]
    /\ user_data = EmptyDict
    /\ update = NoUpdate
    /\ replies = <<>>
    /\ sheet_call = "none"
    /\ hist = <<>>
    /\ n_updates = 0

NextMain ==
    \/ Main
    \/ Start(Chats)
    \/ HandlePhoto(Chats, MainEnvs)
    \/ HandleConfirmation(Chats, MainButtons)
    \/ AddReceipt(Chats)
    \/ HandleName(Chats, MainTexts)
    \/ HandleAmount(Chats, MainTexts)
    \/ HandleDate(Chats, MainTexts)
    \/ HandleCategory(Chats, MainButtons)
    \/ HandleDescription(Chats, MainTexts)
    \/ SearchTransactions(Chats, SearchArgs)
    \/ ListNames(Chats)
    \/ HelpCommand(Chats)
    \/ Cancel(Chats)

SpecMain == InitMain /\ [][NextMain]_vars

-----------------------------------------------------------------------------
(* Vocabulary of the properties *)

\* the step handles an update that went to this callback
Calls(callback) == n_updates' = n_updates + 1 /\ Route(update')[2] = callback

\* the conversation state, in the handler that takes the step's update
ConvAfter == IF Route(update')[1] = "photo" THEN photo_conv'[update'.chat]
             ELSE manual_conv'[update'.chat]

Sent(msg) == \E i \in 1..Len(replies) : replies[i] = msg

\* a value is there: not None, and not the empty string
NonEmpty(v) == v.t # "none" /\ (v.t = "str" => v.s # <<>>)

Mandatory == {"name", "amount", "date", "category"}

MandatoryPresent(ud) == \A k \in Mandatory : NonEmpty(Get(ud, k))

LastRow == sheet[Len(sheet)]

\* C1: every row the write step appends has name, amount, date and category
\* non-empty; when one of them is missing at the write step, append_row is not
\* called and the user is sent the error message.
C1_WriteNeedsMandatoryFields ==
    [][Calls("handle_description") =>
          /\ sheet' # sheet => MandatoryPresent(user_data)
          /\ ~MandatoryPresent(user_data) =>
                /\ sheet_call' = "none"
                /\ Sent("Error saving receipt to Google Sheets.")']_vars


\* A manual flow from Idle: /add, then a name, an amount, a date, a category
\* button and a description, each moving the conversation on.  The valid
\* inputs of Spec and the values they stand for:
ValidNames == {Jo, Fifteen, TypedDate, SkipToken}
ValidAmounts == {<<Fifteen, Num(15, 0)>>}
ValidDates == {TypedDate}
ValidCategories == Buttons \cap CategoryButtons

\* h is the history of a manual flow with the first n of its valid inputs
ManualFlow(h, n) ==
    /\ Len(h) = n + 1
    /\ h[1].kind = "command" /\ h[1].cmd = "add"
    /\ n >= 1 => h[2].kind = "text" /\ h[2].text \in ValidNames
    /\ n >= 2 => h[3].kind = "text" /\ \E a \in ValidAmounts : a[1] = h[3].text
    /\ n >= 3 => h[4].kind = "text" /\ h[4].text \in ValidDates
    /\ n >= 4 => h[5].kind = "callback" /\ h[5].text \in ValidCategories
    /\ n >= 5 => h[6].kind = "text"

AmountOf(text) == (CHOOSE a \in ValidAmounts : a[1] = text)[2]

\* the record of the complete manual flow h has the four values typed, and
\* no image
ManualRecord(r, h) ==
    /\ RowName(r) = Str(h[2].text)
    /\ RowAmount(r) = AmountOf(h[3].text)
    /\ RowDate(r) = Str(h[4].text)
    /\ RowCategory(r) = Str(h[5].text)
    /\ RowImage(r) = Str(No)

ManualFlowAppendsNothingYet ==
    (\E n \in 0..4 : ManualFlow(hist', n)) => sheet' = sheet

\* C2 as stated: a manual flow from Idle that is completed with a valid name,
\* amount, date, category and a description appends exactly one record, with
\* those four values and Image Available = No.
C2_ManualFlowAppendsOneRecord ==
    [][/\ ManualFlowAppendsNothingYet
       /\ ManualFlow(hist', 5) =>
            /\ Len(sheet') = Len(sheet) + 1
            /\ SubSeq(sheet', 1, Len(sheet)) = sheet
            /\ ManualRecord(sheet'[Len(sheet')], hist')]_vars

\* C2 as amended: the same, unless append_row raises, and then the flow
\* appends no record.
C2_ManualFlowAppendsOneRecordUnlessAppendFails ==
    [][/\ ManualFlowAppendsNothingYet
       /\ ManualFlow(hist', 5) =>
            IF sheet_call' = "failed" THEN sheet' = sheet
            ELSE /\ Len(sheet') = Len(sheet) + 1
                 /\ SubSeq(sheet', 1, Len(sheet)) = sheet
                 /\ ManualRecord(sheet'[Len(sheet')], hist')]_vars

C2_Witness ==
    /\ ManualFlow(hist, 5)
    /\ sheet_call = "ok"
    /\ ManualRecord(LastRow, hist)
    /\ Len(sheet) = 2

\* C3: when the extractor's result for a photo received in Idle contains an
\* error, the conversation goes to AwaitingName, not to CONFIRM_DETAILS.
C3_ErrorGoesToName ==
    [][(/\ Calls("handle_photo")
        /\ AllIdle
        /\ update'.env.download
        /\ ~NoError(ReceiptData(user_data')))
       => /\ photo_conv'[update'.chat] = NAME
          /\ photo_conv'[update'.chat] # CONFIRM_DETAILS]_vars

\* C4: a written record has AI Analysis = Yes only if an extraction ran in the
\* session and its result held no error.
C4_AiAnalyzedOnlyWithoutError ==
    [][(sheet' # sheet /\ RowAI(sheet'[Len(sheet')]) = Str(Yes))
       => /\ "ai_analysis" \in DOMAIN user_data
          /\ NoError(ReceiptData(user_data))]_vars

\* the session holds an extraction without error that has an amount, a date
\* and a store
UsableExtraction(ud) ==
    /\ "ai_analysis" \in DOMAIN ud
    /\ NoError(ReceiptData(ud))
    /\ Truthy(Get(ReceiptData(ud), "total_amount"))
    /\ Truthy(Get(ReceiptData(ud), "date"))
    /\ Truthy(Get(ReceiptData(ud), "store_name"))

\* C5: in a photo flow whose extraction succeeded with amount, date and store,
\* after "save" and a name the conversation is in AwaitingCategory, and no
\* amount prompt was sent.
C5_NameSkipsToCategory ==
    [][(/\ Len(hist') = 3
        /\ hist'[1].kind = "photo"
        /\ hist'[2].kind = "callback" /\ hist'[2].text = SaveData
        /\ hist'[3].kind = "text"
        /\ UsableExtraction(user_data))
       => /\ photo_conv'[update'.chat] = CATEGORY
          /\ \A i \in 1..Len(replies') :
                replies'[i] \notin
                  {"AI detected total: Press Enter to accept, or enter a different amount:",
                   "Enter the amount (e.g., 25.50):"}]_vars


\* C6: /cancel in any state leaves every conversation of the user Idle and
\* the session empty, from a non-Idle state as well as when repeated.
C6_CancelReturnsToIdle ==
    [][(n_updates' = n_updates + 1 /\ IsCommand(update', "cancel"))
       => AllIdle' /\ user_data' = EmptyDict]_vars

\* the fields a flow collects or derives
FlowFields == {"name", "amount", "date", "category", "description", "store", "items"}

\* C7: after /add or a photo received in a non-Idle state, the session holds
\* no field of the flow that was in progress.
C7_NewFlowDiscardsPartialData ==
    [][(/\ Calls("add_receipt") \/ Calls("handle_photo")
        /\ ~AllIdle)
       => DOMAIN user_data' \cap FlowFields = {}]_vars

\* the amount that handle_amount reads from a text, as the code parses it
TypedAmount(text) == PyFloat(Strip(Remove(Remove(Strip(text), "$"), ",")))

\* C8: in AwaitingAmount an input that is no number, or a number that is not
\* positive, leaves the conversation in AwaitingAmount and stores no amount;
\* every written record has an amount above zero.
C8_NonPositiveAmountRejected ==
    [][/\ (/\ Calls("handle_amount")
           /\ Strip(update'.text) # <<>>
           /\ ~TypedAmount(update'.text).ok \/ TypedAmount(update'.text).m <= 0)
          => /\ ConvAfter = AMOUNT
             /\ Get(user_data', "amount") = Get(user_data, "amount")
       /\ sheet' # sheet =>
             /\ RowAmount(sheet'[Len(sheet')]).t = "num"
             /\ RowAmount(sheet'[Len(sheet')]).m > 0]_vars

\* text has the form YYYY-MM-DD
IsoForm(text) ==
    /\ Len(text) = 10
    /\ \A i \in 1..10 : IF i \in {5, 8} THEN text[i] = "-" ELSE IsDigit(text[i])

\* C9: when handle_date leaves AwaitingDate the stored date is a calendar date
\* in YYYY-MM-DD form; otherwise the session is as it was.
C9_StoredDateParses ==
    [][Calls("handle_date") =>
          IF ConvAfter # DATE
          THEN /\ Get(user_data', "date").t = "str"
               /\ IsoForm(Get(user_data', "date").s)
               /\ StrptimeOk(Get(user_data', "date").s)
          ELSE user_data' = user_data]_vars

\* the values in the results of the extractor that contain an error, in Spec
Tainted == {Num(99, 0), Str(Untrusted), Str(Junk), List(<<Dict([name |-> Str(Junk)])>>)}

\* C10: no amount, date, store or items of an extraction result that contains
\* an error is in the session or in a row of the sheet.
C10_ErroringExtractionNeverUsed ==
    /\ \A k \in FlowFields : Get(user_data, k) \notin Tainted
    /\ \A i \in 1..Len(sheet) :
          {RowAmount(sheet[i]), RowDate(sheet[i]), RowStore(sheet[i]), RowItems(sheet[i])}
             \cap Tainted = {}

\* a record was written by a photo flow whose extraction result had an error
\* next to an amount, a date, a store and items, and whose date input was empty
C10_Witness ==
    /\ Len(hist) = 7
    /\ hist[1].kind = "photo"
    /\ hist[1].env.backend = ErrorReceipt
    /\ openai_client
    /\ hist[5].text = Blank
    /\ sheet_call = "ok"
    /\ RowAI(LastRow) = Str(Yes)

\* in AwaitingSaveConfirmation the user turns to manual entry: a press on a
\* button that is neither "save" nor "cancel", or the manual-entry command
ManualChoice(u) ==
    \/ u.kind = "callback" /\ u.text \notin {SaveData, CancelData}
    \/ IsCommand(u, "add")

\* C11: when a photo flow with a successful extraction is awaiting the save
\* confirmation and the user chooses manual entry, the flow is awaiting the
\* name with has_image set and without the extraction in the session; the
\* record it writes has Image Available = Yes, AI Analysis = No and not the
\* extracted store.
C11_EnterManuallyDiscardsExtraction ==
    [][/\ (/\ n_updates' = n_updates + 1
           /\ photo_conv[update'.chat] = CONFIRM_DETAILS
           /\ manual_conv[update'.chat] = END
           /\ UsableExtraction(user_data)
           /\ ManualChoice(update'))
          => /\ NAME \in {photo_conv'[update'.chat], manual_conv'[update'.chat]}
             /\ Get(user_data', "has_image") = Bool(TRUE)
             /\ "ai_analysis" \notin DOMAIN user_data'
       /\ (/\ sheet' # sheet
           /\ Len(hist') = 7
           /\ hist'[1].kind = "photo"
           /\ hist'[2].kind = "callback" /\ ManualChoice(hist'[2])
           /\ UsableExtraction(user_data))
          => /\ RowImage(sheet'[Len(sheet')]) = Str(Yes)
             /\ RowAI(sheet'[Len(sheet')]) = Str(No)
             /\ RowStore(sheet'[Len(sheet')]) # Get(ReceiptData(user_data), "store_name")]_vars

\* C12: the write step leaves the session empty and its conversation Idle,
\* whether append_row returned, raised, or was not reached.
C12_WriteStepClearsSession ==
    [][Calls("handle_description") =>
          /\ user_data' = EmptyDict
          /\ ConvAfter = END
          /\ ~Sent("An error occurred: {context.error}")']_vars

\* append_row raised in a write step that held the fields of a flow
C12_Witness ==
    /\ sheet_call = "failed"
    /\ hist # Dirty /\ Len(hist) >= 6
    /\ user_data = EmptyDict
    /\ AllIdle

\* the conversation state of chat c in the handler named h
ConvOf(h, c) == IF h = "photo" THEN photo_conv[c] ELSE manual_conv[c]

\* C13: append_row is called at most once in a step, and only by the write
\* step of a conversation that is awaiting the description; whatever the
\* call's outcome, that conversation is Idle after it, and a conversation
\* leaves Idle only through its entry point, so that another call needs a
\* new flow carried to its description.
C13_AppendAtMostOncePerFlow ==
    [][/\ sheet_call' # "none" \/ sheet' # sheet =>
             /\ Calls("handle_description")
             /\ ConvOf(Route(update')[1], update'.chat) = DESCRIPTION
             /\ ConvAfter = END
             /\ Len(sheet') <= Len(sheet) + 1
             /\ sheet_call' = "failed" => sheet' = sheet
       /\ \A c \in DOMAIN photo_conv :
             /\ (photo_conv[c] = END /\ photo_conv'[c] # END) => Calls("handle_photo")
             /\ (manual_conv[c] = END /\ manual_conv'[c] # END) => Calls("add_receipt")]_vars

\* append_row raised, the sheet is as it was, and the conversation is over
C13_Witness ==
    /\ sheet_call = "failed"
    /\ Len(sheet) = 1
    /\ update.kind = "text"
    /\ ConvOf("photo", update.chat) = END /\ ConvOf("manual", update.chat) = END

\* the categories of the specification: those of the keyboard, and Income
Income == <<"I", "n", "c", "o", "m", "e">>
Categories == CategoryButtons \cup {Income}

\* C14: whatever button is pressed while the conversation awaits the
\* category, the category stored by that step, and the category of every
\* record written, is one of Food, Transport, Shopping, Entertainment,
\* Utilities, Medical, Income, Other.
C14_CategoryIsEnumerated ==
    [][/\ Calls("handle_category") =>
             (ConvAfter # CATEGORY => Get(user_data', "category") \in {Str(c) : c \in Categories})
       /\ sheet' # sheet =>
             RowCategory(sheet'[Len(sheet')]) \in {Str(c) : c \in Categories}]_vars

Unknown == <<"U", "n", "k", "n", "o", "w", "n">>

\* the session holds an extraction without error that names a store
ExtractedStore(ud) ==
    /\ "ai_analysis" \in DOMAIN ud
    /\ NoError(ReceiptData(ud))
    /\ Truthy(Get(ReceiptData(ud), "store_name"))

\* C17: when handle_date leaves AwaitingDate and the extraction gave no store,
\* the session's store is "Unknown"; a record written by a flow without an
\* extracted store has Store = "Unknown".
C17_StoreDefaultsToUnknown ==
    [][/\ (Calls("handle_date") /\ ConvAfter = CATEGORY /\ ~ExtractedStore(user_data))
          => Get(user_data', "store") = Str(Unknown)
       /\ (sheet' # sheet /\ ~ExtractedStore(user_data))
          => RowStore(sheet'[Len(sheet')]) = Str(Unknown)]_vars

\* the callback that takes the step's update raises
CallbackRaises ==
    \/ Calls("handle_name") /\ handle_name(user_data, update'.text).raised
    \/ Calls("handle_amount") /\ handle_amount(user_data, update'.text).raised
    \/ Calls("handle_date") /\ handle_date(user_data, update'.text).raised
    \/ Calls("handle_category") /\ handle_category(user_data, update'.text).raised

\* C15: when a callback raises, the message sent to the user does not hold
\* the exception's text, the session is empty and the conversation is Idle.
C15_UnexpectedErrorClearsSession ==
    [][CallbackRaises =>
          /\ ~Sent("An error occurred: {context.error}")'
          /\ user_data' = EmptyDict
          /\ ConvAfter = END]_vars

\* the backend call's outcomes that are failures
BackendFails(client, backend) == ~client \/ backend.k \in {"raise", "nojson", "badjson"}

\* C16: for every outcome of the backend call handle_photo gets a result from
\* analyze_receipt_image and goes on with it (its own except branch is not
\* taken), and when the client is not configured, the call raises, the answer
\* has no JSON object or its JSON is malformed, the result has an error field.
C16_ExtractorReturnsErrorResult ==
    [][(Calls("handle_photo") /\ update'.env.download /\
        BackendFails(openai_client, update'.env.backend))
       => /\ Get(user_data', "ai_analysis").t = "dict"
          /\ "error" \in DOMAIN ReceiptData(user_data')
          /\ ~Sent("Error analyzing receipt photo.")']_vars

\* a photo was handled whose answer held malformed JSON
C16_Witness ==
    /\ update.kind = "photo"
    /\ openai_client
    /\ update.env.backend.k = "badjson"
    /\ Get(ReceiptData(user_data), "error") = Str(JsonParseError)
    /\ Sent("Error analyzing receipt: Would you like to save this to Google Sheets?")

\* the session has a description, or an extraction without error that has a
\* summary
DescriptionPrefilled(ud) ==
    \/ Truthy(Get(ud, "description"))
    \/ /\ "ai_analysis" \in DOMAIN ud
       /\ NoError(ReceiptData(ud))
       /\ Truthy(Get(ReceiptData(ud), "summary"))

\* C18: the selection of a category is followed by the write, without
\* AwaitingDescription, when a description or summary came with the
\* extraction, and by AwaitingDescription otherwise.
C18_CategorySkipsDescription ==
    [][(Calls("handle_category") /\ ~CallbackRaises) =>
          IF DescriptionPrefilled(user_data)
          THEN ConvAfter = END /\ sheet_call' # "none"
          ELSE ConvAfter = DESCRIPTION /\ sheet_call' = "none"]_vars

\* text, stripped, has a "$" elsewhere than in front
StrayCurrency(text) == \E i \in 2..Len(Strip(text)) : Strip(text)[i] = "$"

\* C19: "$1,234.56" is read as 1234.56; a typed amount that is no number, or
\* has a currency symbol elsewhere than in front, leaves the conversation in
\* AwaitingAmount and the session as it was, and no exception escapes.
C19_AmountParsing ==
    [][(Calls("handle_amount") /\ Strip(update'.text) # <<>>) =>
          /\ ~CallbackRaises
          /\ update'.text = Dollars =>
                ConvAfter = DATE /\ Get(user_data', "amount") = Num(123456, 2)
          /\ (StrayCurrency(update'.text) \/ ~TypedAmount(update'.text).ok) =>
                ConvAfter = AMOUNT /\ user_data' = user_data]_vars

\* a flow is in progress in chat c
InFlow(c) == photo_conv[c] # END \/ manual_conv[c] # END

\* C20: an update handled in one chat changes neither the conversation state
\* nor the collected fields of a flow in progress in another chat.
C20_SessionsIsolatedPerChat ==
    [][\A c \in DOMAIN photo_conv :
          (n_updates' = n_updates + 1 /\ update'.chat # c /\ InFlow(c))
          => /\ photo_conv'[c] = photo_conv[c]
             /\ manual_conv'[c] = manual_conv[c]
             /\ user_data' = user_data]_vars

\* C23: in no chat are the photo conversation and the manual conversation of
\* the user both in a state other than Idle.
C23_OneConversationPerChat ==
    \A c \in DOMAIN photo_conv : photo_conv[c] = END \/ manual_conv[c] = END

\* the input of the step is one that the state it arrives in must reject: a
\* name that is blank, a typed amount that is no number, a typed date other
\* than "today" that is no calendar date
RejectedInput ==
    \/ Calls("handle_name") /\ Strip(update'.text) = <<>>
    \/ /\ Calls("handle_amount")
       /\ Strip(update'.text) # <<>>
       /\ ~TypedAmount(update'.text).ok
    \/ /\ Calls("handle_date")
       /\ Strip(update'.text) # <<>>
       /\ Lower(Strip(update'.text)) # TodayToken
       /\ ~StrptimeOk(Strip(update'.text))

\* C24: a step that rejects its input leaves both conversation states, the
\* session and the sheet as they were.
C24_RejectedInputChangesNothing ==
    [][RejectedInput =>
          /\ photo_conv' = photo_conv
          /\ manual_conv' = manual_conv
          /\ user_data' = user_data
          /\ sheet' = sheet]_vars

\* a date that is no calendar date was typed in a flow that had collected a
\* name and an amount, and was rejected
C24_Witness ==
    /\ update.kind = "text"
    /\ Sent("Invalid date format. Please use YYYY-MM-DD:")
    /\ ~StrptimeOk(Strip(update.text))
    /\ DOMAIN user_data = {"name", "amount"}
    /\ manual_conv[update.chat] = DATE

\* the photo's extraction returned an error
PhotoWithError(u, ud) ==
    /\ u.kind = "photo"
    /\ u.env.download
    /\ ~NoError(ReceiptData(ud))

\* C25: after a photo whose extraction returned an error the bot takes a
\* name; and the flow of that photo, carried on with a valid name, amount,
\* date, category and a description (after the press on "save" that the
\* confirmation asks for, if any), appends exactly one record with those
\* values.
C25_ErrorNeverBlocksManualCompletion ==
    [][/\ (Calls("handle_photo") /\ PhotoWithError(update', user_data'))
          => route(photo_conv', manual_conv', TextUpdate(update'.chat, Jo))[2] = "handle_name"
       /\ (/\ Len(hist') = 7
           /\ PhotoWithError(hist'[1], user_data)
           /\ hist'[2].kind = "callback" /\ hist'[2].text = SaveData
           /\ ManualFlow(<<CommandUpdate(hist'[1].chat, "add")>> \o SubSeq(hist', 3, 7), 5))
          => /\ Len(sheet') = Len(sheet) + 1
             /\ RowName(sheet'[Len(sheet')]) = Str(hist'[3].text)
             /\ RowAmount(sheet'[Len(sheet')]) = AmountOf(hist'[4].text)
             /\ RowDate(sheet'[Len(sheet')]) = Str(hist'[5].text)
             /\ RowCategory(sheet'[Len(sheet')]) = Str(hist'[6].text)]_vars

\* C26: the write step sends the success message only when it appended a
\* row, and the "Error saving" message only when it appended none.
C26_ReportMatchesSheet ==
    [][Calls("handle_description") =>
          /\ Sent("Receipt saved successfully!")' => Len(sheet') = Len(sheet) + 1
          /\ Sent("Error saving receipt to Google Sheets.")' => sheet' = sheet]_vars

\* C21: main() goes from its start to polling when the token, the sheet's
\* location and the credential are all set and accepted, and stops otherwise;
\* an update is handled only while it is polling, under such an environment.
C21_ServesOnlyWhenConfigured ==
    [][/\ (running = "starting" /\ running' # running)
          => running' = IF environ = ValidEnviron THEN "polling" ELSE "stopped"
       /\ n_updates' # n_updates
          => running = "polling" /\ running' = "polling" /\ environ = ValidEnviron]_vars

\* main() stopped because the sheet's location was not set, no update handled
C21_Witness ==
    /\ running = "stopped"
    /\ environ.TELEGRAM_TOKEN = "valid"
    /\ environ.GOOGLE_CREDS_JSON = "valid"
    /\ environ.SHEET_URL = "missing"
    /\ n_updates = 0

\* C22: whenever the sheet has a row, its first row is the header row.
C22_HeaderRowFirst ==
    sheet # <<>> => sheet[1] = Headers

\* the step handles one of the informational commands
InfoCommand ==
    /\ n_updates' = n_updates + 1
    /\ update'.kind = "command"
    /\ update'.cmd \in {"start", "help", "search", "list"}

\* C27: /start, /help, /search and /list leave both conversation states, the
\* session and the sheet as they were, in whatever state they arrive.
C27_InfoCommandsChangeNothing ==
    [][InfoCommand =>
          /\ photo_conv' = photo_conv
          /\ manual_conv' = manual_conv
          /\ user_data' = user_data
          /\ sheet' = sheet
          /\ sheet_call' = "none"]_vars

\* /start arrived while a manual flow that had its name and amount awaited
\* the date
C27_Witness ==
    /\ IsCommand(update, "start")
    /\ manual_conv[update.chat] = DATE
    /\ DOMAIN user_data = {"name", "amount"}
    /\ Sent("Welcome to AI Receipt Scanner Bot!")

====
